---- MODULE Spec2Model ----
(***************************************************************************)
(* Model of language/libra-vm/src/libra_transaction_executor.rs:           *)
(* LibraVM::execute_block and the per-transaction flows it dispatches to.  *)
(* The Move interpreter, the prologue/epilogue Move functions, the policy  *)
(* checks and the gas meter are collaborators outside this file: what they *)
(* return is drawn with \E from the outcomes their contracts allow.        *)
(***************************************************************************)
EXTENDS Integers, Sequences, FiniteSets, TLC

\* ---------------------------------------------------------------- bounds
MaxTxns == 2          \* longest input batch
MaxBodyCost == 1      \* the gas a body execution asks for, when it asks for any
MaxGasCarrier == 15   \* stands for u64::MAX, the block prologue's max gas

\* ------------------------------------------------------------ data model
Keys == {"acct", "res"}
KeyOrder == <<"acct", "res">>

NoVal == [txn |-> 0, by |-> "none"]

NoTxn == [id |-> 0, kind |-> "None", payload |-> "None", sig_ok |-> FALSE,
          max_gas_amount |-> 0, transaction_size |-> 0,
          change_set |-> [write_set |-> <<>>, events |-> <<>>],
          malformed |-> FALSE]

WOp(k, id, by) == [ap |-> k, val |-> [txn |-> id, by |-> by]]

\* The shapes a transaction of the input batch can take.
\* <<max_gas_amount, transaction_size>> of a script: max gas equal to the
\* intrinsic cost, and below it.  The module shape has max gas above it.
GasShapes == { <<1, 1>>, <<1, 2>> }
ChangeSetShapes == { <<"acct", "user">>, <<"res", "user">>, <<"res", "reconfig">> }

Shape(kind, payload, sig, gas, cs, mal) ==
    [kind |-> kind, payload |-> payload, sig_ok |-> sig, gas |-> gas, cs |-> cs, malformed |-> mal]

NoGas == <<0, 0>>
NoCS == <<"none", "none">>

Shapes ==
    { Shape("BlockMetadata", "None", TRUE, NoGas, NoCS, m) : m \in BOOLEAN }
    \cup { Shape("WaypointWriteSet", "None", TRUE, NoGas, <<k, "user">>, FALSE) : k \in Keys }
    \cup { Shape("UserTransaction", "WriteSet", TRUE, NoGas, c, FALSE) : c \in ChangeSetShapes }
    \cup { Shape("UserTransaction", "WriteSet", FALSE, NoGas, <<"res", "user">>, FALSE) }
    \cup { Shape("UserTransaction", "Script", TRUE, g, NoCS, FALSE) : g \in GasShapes }
    \cup { Shape("UserTransaction", "Script", FALSE, <<1, 1>>, NoCS, FALSE) }
    \cup { Shape("UserTransaction", "Module", TRUE, <<2, 1>>, NoCS, FALSE) }

MkTxn(i, s) ==
    [id |-> i, kind |-> s.kind, payload |-> s.payload, sig_ok |-> s.sig_ok,
     max_gas_amount |-> s.gas[1], transaction_size |-> s.gas[2],
     change_set |-> IF s.cs = NoCS THEN [write_set |-> <<>>, events |-> <<>>]
                    ELSE [write_set |-> << WOp(s.cs[1], i, "change_set") >>,
                          events |-> << s.cs[2] >>],
     malformed |-> s.malformed]

\* ----------------------------------------------------------- status codes
KeepCodes == {"EXECUTED", "OUT_OF_GAS", "ABORTED"}

TransactionStatusFrom_retries_unknown(code) ==
    [kind |-> IF code \in KeepCodes THEN "Keep"
              ELSE IF code = "UNKNOWN_INVARIANT_VIOLATION_ERROR" THEN "Retry"
              ELSE "Discard",
     code |-> code]

\* TransactionStatus::from(VMStatus): execution statuses are kept, the
\* validation / invariant-violation / unknown ones are discarded.
TransactionStatusFrom(code) ==
    [kind |-> IF code \in KeepCodes THEN "Keep" ELSE "Discard", code |-> code]

InterpreterErrors == {"ABORTED", "UNKNOWN_INVARIANT_VIOLATION_ERROR"}
FailureEpilogueErrors == {"ABORTED"}
FinishErrors == {"VALUE_SERIALIZATION_ERROR"}
CheckGasErrors == {"MAX_GAS_UNITS_EXCEEDS_MAX_GAS_UNITS_BOUND"}
PrologueErrors == {"SEQUENCE_NUMBER_TOO_OLD"}
WritesetPrologueErrors == {"REJECTED_WRITE_SET"}

AllowedErrors(payload) ==
    IF payload = "Script" THEN {"UNKNOWN_SCRIPT"} ELSE {"INVALID_MODULE_PUBLISHER"}

\* ------------------------------------------------------------- StateViewCache
EmptyCache == [k \in Keys |-> NoVal]

RECURSIVE push_write_set(_, _)
push_write_set(cache, ws) ==
    IF ws = <<>> THEN cache
    ELSE push_write_set([cache EXCEPT ![Head(ws).ap] = Head(ws).val], Tail(ws))

\* The keys on which the backing state view answers with an error.
error_keys == {"res"}

\* StateViewCache::get: the overlay answers first, otherwise the backing
\* view, which fails on the keys of errs.
cache_get_ok(cache, errs, ap) == cache[ap] # NoVal \/ ap \notin errs

read_writeset(cache, errs, ws) ==
    IF \A i \in 1..Len(ws) : cache_get_ok(cache, errs, ws[i].ap)
    THEN "ok" ELSE "STORAGE_ERROR"

\* ------------------------------------------------------------------ Session
new_session == [writes |-> <<>>, events |-> <<>>]

SessionExec(s, ws, evs) == [writes |-> s.writes \o ws, events |-> s.events \o evs]

MaxOf(S) == CHOOSE x \in S : \A y \in S : y <= x

LastVal(writes, k) ==
    LET idx == { i \in 1..Len(writes) : writes[i].ap = k }
    IN IF idx = {} THEN NoVal ELSE writes[MaxOf(idx)].val

\* Session::finish followed by txn_effects_to_writeset_and_events_cached:
\* one entry per access path written, in access-path order.
txn_effects_to_writeset(s) ==
    LET all == [i \in 1..Len(KeyOrder) |->
                   [ap |-> KeyOrder[i], val |-> LastVal(s.writes, KeyOrder[i])]]
    IN SelectSeq(all, LAMBDA w : w.val # NoVal)

\* Effects of the Move code run inside a session.
PrologueEffects(t) == << WOp("acct", t.id, "prologue") >>
BodyEffects(t) == << WOp("res", t.id, "body") >>
SuccessEpilogueEffects(t) == << WOp("acct", t.id, "success_epilogue") >>
FailureEpilogueEffects(t) == << WOp("acct", t.id, "failure_epilogue") >>
BumpSequenceEffects(t) == << WOp("acct", t.id, "bump_sequence_number") >>
BlockPrologueEffects(t) == << WOp("res", t.id, "block_prologue") >>

\* ------------------------------------------------------------- CostStrategy
CostStrategy_system(gas_left) == [gas_left |-> gas_left, charge |-> FALSE]
CostStrategy_transaction(gas_left) == [gas_left |-> gas_left, charge |-> TRUE]

enable_metering(cs) == [cs EXCEPT !.charge = TRUE]
disable_metering(cs) == [cs EXCEPT !.charge = FALSE]

deduct_gas(cs, amount) ==
    IF ~cs.charge THEN [ok |-> TRUE, cs |-> cs]
    ELSE IF cs.gas_left >= amount
         THEN [ok |-> TRUE, cs |-> [cs EXCEPT !.gas_left = cs.gas_left - amount]]
         ELSE [ok |-> FALSE, cs |-> [cs EXCEPT !.gas_left = 0]]

calculate_intrinsic_gas(size) == size

\* ------------------------------------------------------------------ outputs
TransactionOutput(id, ws, evs, gas, status) ==
    [id |-> id, write_set |-> ws, events |-> evs, gas_used |-> gas, status |-> status]

discard_error_output(id, err) ==
    TransactionOutput(id, <<>>, <<>>, 0, [kind |-> "Discard", code |-> err])

NoOutput == TransactionOutput(0, <<>>, <<>>, 0, [kind |-> "None", code |-> "None"])

\* get_transaction_output: finish the session and build a Keep output that
\* charges max_gas_amount - remaining gas (unsigned arithmetic of the gas
\* carrier's width).  fin is the outcome of finish.
get_transaction_output(s, cs, max_gas, id, status, fin) ==
    IF fin # "ok" THEN [ok |-> FALSE, err |-> fin, out |-> NoOutput]
    ELSE [ok |-> TRUE, err |-> "ok",
          out |-> TransactionOutput(id, txn_effects_to_writeset(s), s.events,
                                    (max_gas - cs.gas_left) % (MaxGasCarrier + 1),
                                    [kind |-> "Keep", code |-> status])]

\* --------------------------------------------------- chunk_block_transactions
Block(kind, txns) == [kind |-> kind, txns |-> txns]

FlushBuf_drop(blks, buf) == blks

FlushBuf(blks, buf) ==
    IF buf # <<>> THEN Append(blks, Block("UserTransaction", buf)) ELSE blks

RECURSIVE chunk_loop_keeps_buffer(_, _, _)
chunk_loop_keeps_buffer(txns, blks, buf) ==
    IF txns = <<>> THEN FlushBuf(blks, buf)
    ELSE LET t == Head(txns) IN
         IF t.kind = "BlockMetadata"
         THEN chunk_loop_keeps_buffer(Tail(txns), Append(blks, Block("BlockPrologue", <<t>>)), buf)
         ELSE IF t.kind = "WaypointWriteSet"
         THEN chunk_loop_keeps_buffer(Tail(txns), Append(blks, Block("WaypointWriteSet", <<t>>)), buf)
         ELSE IF t.payload = "WriteSet"
         THEN chunk_loop_keeps_buffer(Tail(txns), Append(blks, Block("WriteSet", <<t>>)), buf)
         ELSE chunk_loop_keeps_buffer(Tail(txns), blks, Append(buf, t))

RECURSIVE chunk_loop_all_writeset(_, _, _)
chunk_loop_all_writeset(txns, blks, buf) ==
    IF txns = <<>> THEN FlushBuf(blks, buf)
    ELSE LET t == Head(txns) IN
         IF t.kind = "BlockMetadata"
         THEN chunk_loop_all_writeset(Tail(txns),
                  Append(FlushBuf(blks, buf), Block("BlockPrologue", <<t>>)), <<>>)
         ELSE IF t.kind = "WaypointWriteSet"
         THEN chunk_loop_all_writeset(Tail(txns),
                  Append(FlushBuf(blks, buf), Block("WaypointWriteSet", <<t>>)), <<>>)
         ELSE chunk_loop_all_writeset(Tail(txns),
                  Append(FlushBuf(blks, buf), Block("WriteSet", <<t>>)), <<>>)

RECURSIVE chunk_loop_groups_writeset(_, _, _)
chunk_loop_groups_writeset(txns, blks, buf) ==
    IF txns = <<>> THEN FlushBuf(blks, buf)
    ELSE LET t == Head(txns) IN
         IF t.kind = "BlockMetadata"
         THEN chunk_loop_groups_writeset(Tail(txns),
                  Append(FlushBuf(blks, buf), Block("BlockPrologue", <<t>>)), <<>>)
         ELSE IF t.kind = "WaypointWriteSet"
         THEN chunk_loop_groups_writeset(Tail(txns),
                  Append(FlushBuf(blks, buf), Block("WaypointWriteSet", <<t>>)), <<>>)
         ELSE chunk_loop_groups_writeset(Tail(txns), blks, Append(buf, t))

\* The loop of chunk_block_transactions: blks is the vector of blocks
\* built so far, buf the pending run of user transactions.
RECURSIVE chunk_loop(_, _, _)
chunk_loop(txns, blks, buf) ==
    IF txns = <<>> THEN FlushBuf(blks, buf)
    ELSE LET t == Head(txns) IN
         IF t.kind = "BlockMetadata"
         THEN chunk_loop(Tail(txns), Append(FlushBuf(blks, buf), Block("BlockPrologue", <<t>>)), <<>>)
         ELSE IF t.kind = "WaypointWriteSet"
         THEN chunk_loop(Tail(txns), Append(FlushBuf(blks, buf), Block("WaypointWriteSet", <<t>>)), <<>>)
         ELSE IF t.payload = "WriteSet"
         THEN chunk_loop(Tail(txns), Append(FlushBuf(blks, buf), Block("WriteSet", <<t>>)), <<>>)
         ELSE chunk_loop(Tail(txns), blks, Append(buf, t))

chunk_block_transactions(txns) == chunk_loop(txns, <<>>, <<>>)

\* ------------------------------------------------------ block-level handlers
KeepExecuted == [kind |-> "Keep", code |-> "EXECUTED"]


process_waypoint_change_set_push_first(cache, errs, t) ==
    LET ws == t.change_set.write_set
        r == read_writeset(cache, errs, ws)
    IN IF r # "ok"
       THEN [ok |-> FALSE, err |-> r, out |-> NoOutput, cache |-> push_write_set(cache, ws)]
       ELSE [ok |-> TRUE, err |-> "ok",
             out |-> TransactionOutput(t.id, ws, t.change_set.events, 0,
                                       [kind |-> "Keep", code |-> "EXECUTED"]),
             cache |-> push_write_set(cache, ws)]

process_waypoint_change_set_no_push(cache, errs, t) ==
    LET ws == t.change_set.write_set
        r == read_writeset(cache, errs, ws)
    IN IF r # "ok"
       THEN [ok |-> FALSE, err |-> r, out |-> NoOutput, cache |-> cache]
       ELSE [ok |-> TRUE, err |-> "ok",
             out |-> TransactionOutput(t.id, ws, t.change_set.events, 0, KeepExecuted),
             cache |-> cache]

\* process_waypoint_change_set: read every path, push, reload configs.
process_waypoint_change_set(cache, errs, t) ==
    LET ws == t.change_set.write_set
        r == read_writeset(cache, errs, ws)
    IN IF r # "ok"
       THEN [ok |-> FALSE, err |-> r, out |-> NoOutput, cache |-> cache]
       ELSE [ok |-> TRUE, err |-> "ok",
             out |-> TransactionOutput(t.id, ws, t.change_set.events, 0, KeepExecuted),
             cache |-> push_write_set(cache, ws)]

\* process_block_prologue: exec is the outcome of the block prologue call,
\* fin the outcome of finishing its session.
process_block_prologue(cache, t, exec, fin) ==
    LET cs0 == CostStrategy_transaction(MaxGasCarrier)
        ch == deduct_gas(cs0, 0)     \* zero_cost_schedule
        s == SessionExec(new_session, BlockPrologueEffects(t), <<"new_block">>)
        g == get_transaction_output(s, ch.cs, MaxGasCarrier, t.id, "EXECUTED", fin)
    IN IF ~ch.ok THEN [ok |-> FALSE, err |-> "OUT_OF_GAS", out |-> NoOutput, cache |-> cache]
       ELSE IF t.malformed THEN [ok |-> FALSE, err |-> "MALFORMED", out |-> NoOutput, cache |-> cache]
       ELSE IF exec # "ok" THEN [ok |-> FALSE, err |-> exec, out |-> NoOutput, cache |-> cache]
       ELSE IF ~g.ok THEN [ok |-> FALSE, err |-> g.err, out |-> NoOutput, cache |-> cache]
       ELSE [ok |-> TRUE, err |-> "ok", out |-> g.out,
             cache |-> push_write_set(cache, g.out.write_set)]

ApSet(ws) == { ws[i].ap : i \in 1..Len(ws) }
EvSet(evs) == { evs[i] : i \in 1..Len(evs) }

\* The session of a write-set transaction once the sequence-number bump
\* and the write-set epilogue (the reconfiguration event) have run in it.
writeset_session(t) == SessionExec(new_session, BumpSequenceEffects(t), <<"reconfig">>)

process_writeset_transaction_no_overlap_check(cache, errs, t, pro, bump, epi, fin) ==
    LET cs == t.change_set
        s == writeset_session(t)
        Ok(o) == [ok |-> TRUE, err |-> "ok", out |-> o]
        Err(e) == [ok |-> FALSE, err |-> e, out |-> NoOutput]
    IN IF ~t.sig_ok THEN Ok(discard_error_output(t.id, "INVALID_SIGNATURE"))
       ELSE IF t.payload # "WriteSet" THEN Ok(discard_error_output(t.id, "UNREACHABLE"))
       ELSE IF pro # "ok" THEN Ok(discard_error_output(t.id, pro))
       ELSE IF bump # "ok" THEN Err(bump)
       ELSE IF epi # "ok" THEN Err(epi)
       ELSE IF read_writeset(cache, errs, cs.write_set) # "ok"
            THEN Ok(discard_error_output(t.id, "STORAGE_ERROR"))
       ELSE IF fin # "ok" THEN Err(fin)
       ELSE Ok(TransactionOutput(t.id, txn_effects_to_writeset(s) \o cs.write_set,
                                 cs.events \o s.events, 0, KeepExecuted))

process_writeset_transaction_epilogue_events_first(cache, errs, t, pro, bump, epi, fin) ==
    LET cs == t.change_set
        s == writeset_session(t)
        epilogue_writeset == txn_effects_to_writeset(s)
        epilogue_events == s.events
        Ok(o) == [ok |-> TRUE, err |-> "ok", out |-> o]
        Err(e) == [ok |-> FALSE, err |-> e, out |-> NoOutput]
    IN IF ~t.sig_ok THEN Ok(discard_error_output(t.id, "INVALID_SIGNATURE"))
       ELSE IF t.payload # "WriteSet" THEN Ok(discard_error_output(t.id, "UNREACHABLE"))
       ELSE IF pro # "ok" THEN Ok(discard_error_output(t.id, pro))
       ELSE IF bump # "ok" THEN Err(bump)
       ELSE IF epi # "ok" THEN Err(epi)
       ELSE IF read_writeset(cache, errs, cs.write_set) # "ok"
            THEN Ok(discard_error_output(t.id, "STORAGE_ERROR"))
       ELSE IF fin # "ok" THEN Err(fin)
       ELSE IF ApSet(epilogue_writeset) \cap ApSet(cs.write_set) # {}
            THEN Ok(discard_error_output(t.id, "INVALID_WRITE_SET"))
       ELSE IF EvSet(epilogue_events) \cap EvSet(cs.events) # {}
            THEN Ok(discard_error_output(t.id, "INVALID_WRITE_SET"))
       ELSE Ok(TransactionOutput(t.id, epilogue_writeset \o cs.write_set,
                                 epilogue_events \o cs.events, 0, KeepExecuted))

\* process_writeset_transaction.  pro, bump, epi, fin are the outcomes of
\* the write-set prologue, the sequence-number bump, the write-set
\* epilogue and the session finish.  ok = FALSE is the Err(..) return.
process_writeset_transaction(cache, errs, t, pro, bump, epi, fin) ==
    LET cs == t.change_set
        s == writeset_session(t)
        epilogue_writeset == txn_effects_to_writeset(s)
        epilogue_events == s.events
        Ok(o) == [ok |-> TRUE, err |-> "ok", out |-> o]
        Err(e) == [ok |-> FALSE, err |-> e, out |-> NoOutput]
    IN IF ~t.sig_ok THEN Ok(discard_error_output(t.id, "INVALID_SIGNATURE"))
       ELSE IF t.payload # "WriteSet" THEN Ok(discard_error_output(t.id, "UNREACHABLE"))
       ELSE IF pro # "ok" THEN Ok(discard_error_output(t.id, pro))
       ELSE IF bump # "ok" THEN Err(bump)
       ELSE IF epi # "ok" THEN Err(epi)
       ELSE IF read_writeset(cache, errs, cs.write_set) # "ok"
            THEN Ok(discard_error_output(t.id, "STORAGE_ERROR"))
       ELSE IF fin # "ok" THEN Err(fin)
       ELSE IF ApSet(epilogue_writeset) \cap ApSet(cs.write_set) # {}
            THEN Ok(discard_error_output(t.id, "INVALID_WRITE_SET"))
       ELSE IF EvSet(epilogue_events) \cap EvSet(cs.events) # {}
            THEN Ok(discard_error_output(t.id, "INVALID_WRITE_SET"))
       ELSE Ok(TransactionOutput(t.id, epilogue_writeset \o cs.write_set,
                                 cs.events \o epilogue_events, 0, KeepExecuted))

\* ------------------------------------------------- user-transaction helpers
BodyEvents == <<"sent">>

user_cost_strategy_unbounded(t) == CostStrategy_system(MaxGasCarrier)

\* execute_user_transaction: the meter starts at the transaction's own
\* max_gas_amount.
user_cost_strategy(t) == CostStrategy_system(t.max_gas_amount)

cleanup_cost_strategy_metered(gas_left) == CostStrategy_transaction(gas_left)

\* let mut cost_strategy = CostStrategy::system(gas_schedule, gas_left):
\* the meter success_transaction_cleanup and failed_transaction_cleanup
\* run their epilogue under.
cleanup_cost_strategy(gas_left) == CostStrategy_system(gas_left)

\* success_transaction_cleanup: the success epilogue runs in the body's
\* session under a fresh system meter.  ok = FALSE is the Err(..) return.
success_transaction_cleanup(s, gas_left, t, epi, fin) ==
    LET cs == cleanup_cost_strategy(gas_left)
        ch == deduct_gas(cs, 1)
        s1 == SessionExec(s, SuccessEpilogueEffects(t), <<>>)
    IN IF epi # "ok" THEN [ok |-> FALSE, err |-> epi, out |-> NoOutput]
       ELSE IF ~ch.ok THEN [ok |-> FALSE, err |-> "OUT_OF_GAS", out |-> NoOutput]
       ELSE get_transaction_output(s1, ch.cs, t.max_gas_amount, t.id, "EXECUTED", fin)

failed_transaction_cleanup_reuses_session(error_code, gas_left, t, body_session, epi, fin) ==
    LET cs == CostStrategy_system(gas_left)
        ch == deduct_gas(cs, 1)
        s1 == SessionExec(body_session, FailureEpilogueEffects(t), <<>>)
        g == get_transaction_output(s1, ch.cs, t.max_gas_amount, t.id, error_code, fin)
    IN IF TransactionStatusFrom(error_code).kind = "Keep"
       THEN IF epi # "ok" THEN discard_error_output(t.id, epi)
            ELSE IF ~ch.ok THEN discard_error_output(t.id, "OUT_OF_GAS")
            ELSE IF g.ok THEN g.out ELSE discard_error_output(t.id, g.err)
       ELSE discard_error_output(t.id, error_code)

failed_transaction_cleanup_full_gas(error_code, gas_left, t, body_session, epi, fin) ==
    LET cs == CostStrategy_system(t.max_gas_amount)
        ch == deduct_gas(cs, 1)
        s1 == SessionExec(new_session, FailureEpilogueEffects(t), <<>>)
        g == get_transaction_output(s1, ch.cs, t.max_gas_amount, t.id, error_code, fin)
    IN IF TransactionStatusFrom(error_code).kind = "Keep"
       THEN IF epi # "ok" THEN discard_error_output(t.id, epi)
            ELSE IF ~ch.ok THEN discard_error_output(t.id, "OUT_OF_GAS")
            ELSE IF g.ok THEN g.out ELSE discard_error_output(t.id, g.err)
       ELSE discard_error_output(t.id, error_code)

\* TransactionStatus::Retry => unreachable!(): the thread panics and no
\* output is produced; the record marks that the branch was taken.
unreachable_panic(id) ==
    TransactionOutput(id, <<>>, <<>>, 0, [kind |-> "Panic", code |-> "unreachable"])

\* failed_transaction_cleanup: the failure epilogue runs in a new session
\* over the cache, under a fresh system meter holding the gas left.
failed_transaction_cleanup(error_code, gas_left, t, body_session, epi, fin) ==
    LET cs == cleanup_cost_strategy(gas_left)
        ch == deduct_gas(cs, 1)
        s1 == SessionExec(new_session, FailureEpilogueEffects(t), <<>>)
        g == get_transaction_output(s1, ch.cs, t.max_gas_amount, t.id, error_code, fin)
    IN IF TransactionStatusFrom(error_code).kind = "Keep"
       THEN IF epi # "ok" THEN discard_error_output(t.id, epi)
            ELSE IF ~ch.ok THEN discard_error_output(t.id, "OUT_OF_GAS")
            ELSE IF g.ok THEN g.out ELSE discard_error_output(t.id, g.err)
       ELSE IF TransactionStatusFrom(error_code).kind = "Discard"
       THEN discard_error_output(t.id, error_code)
       ELSE unreachable_panic(t.id)

handle_error_keeps_session(e, gas_left, t, body_session, epi, fin) ==
    IF TransactionStatusFrom(e).kind = "Discard"
    THEN TransactionOutput(t.id, txn_effects_to_writeset(body_session), body_session.events,
                           0, [kind |-> "Discard", code |-> e])
    ELSE failed_transaction_cleanup(e, gas_left, t, body_session, epi, fin)

\* The match on the result of execute_script / execute_module at the end
\* of execute_user_transaction.
handle_error(e, gas_left, t, body_session, epi, fin) ==
    IF TransactionStatusFrom(e).kind = "Discard"
    THEN discard_error_output(t.id, e)
    ELSE failed_transaction_cleanup(e, gas_left, t, body_session, epi, fin)

\* Whether the failure epilogue is run for error e.
runs_failure_epilogue(e) == TransactionStatusFrom(e).kind = "Keep"

\* execute_user_transactions: which outputs are applied to the cache.
is_discarded(out) == out.status.kind = "Discard"

apply_output(cache, out) ==
    IF ~is_discarded(out) THEN push_write_set(cache, out.write_set) ELSE cache

after_validation_ignores_error(res, next) == next

\* Where the ? after a validation step leads.
after_validation(res, next) == IF res = "ok" THEN next ELSE "error"

\* ---------------------------------------------------------------- variables
VARIABLES
    transactions,   \* the input batch
    gas_on_chain,   \* whether the state holds a gas schedule to load
    pc,             \* position of the driver
    blocks,         \* blocks still to run
    result,         \* execute_block_impl's result vector
    batch_error,    \* the VMStatus execute_block returns, "none" if none
    data_cache,     \* the StateViewCache overlay
    vm,             \* LibraVMImpl: loaded gas schedule and configs
    run_txns,       \* txn_block of execute_user_transactions
    sig_results,    \* signature_verified_block, entry by entry
    run_idx,        \* position of the serial loop in the run
    outs,           \* result vector of execute_user_transactions
    txn,            \* the user transaction being executed
    cost_strategy,  \* its gas meter
    session,        \* its session
    err,            \* the error execute_script / execute_module returned
    output,         \* the output of the current user transaction
    steps,          \* history: steps taken for the current transaction
    cache_pre,      \* history: the overlay when the current transaction started
    history         \* history: one entry per output produced

inputVars == <<transactions, gas_on_chain>>
runVars == <<run_txns, sig_results, run_idx, outs>>
txnVars == <<txn, cost_strategy, session, err, output, steps, cache_pre>>
vars == <<transactions, gas_on_chain, pc, blocks, result, batch_error, data_cache, vm,
          run_txns, sig_results, run_idx, outs, txn, cost_strategy, session, err,
          output, steps, cache_pre, history>>

Step(name, res, cs) == [step |-> name, res |-> res, metering |-> cs.charge]
HistoryEntry(id, st, pre, post) == [id |-> id, steps |-> st, pre |-> pre, post |-> post]

NoCost == CostStrategy_system(0)

Init ==
    /\ \E n \in 0..MaxTxns : \E f \in [1..n -> Shapes] :
          transactions = [i \in 1..n |-> MkTxn(i, f[i])]
    /\ gas_on_chain \in BOOLEAN
    /\ pc = "start"
    /\ blocks = <<>>
    /\ result = <<>>
    /\ batch_error = "none"
    /\ data_cache = EmptyCache
    /\ vm = [gas_schedule |-> FALSE, loaded_from |-> EmptyCache]
    /\ run_txns = <<>>
    /\ sig_results = <<>>
    /\ run_idx = 0
    /\ outs = <<>>
    /\ txn = NoTxn
    /\ cost_strategy = NoCost
    /\ session = new_session
    /\ err = "none"
    /\ output = NoOutput
    /\ steps = <<>>
    /\ cache_pre = EmptyCache
    /\ history = <<>>

\* LibraVMImpl::load_configs_impl: re-read the on-chain configuration
\* through the cache; the gas schedule may or may not be there.
load_configs_impl(v, cache, present) ==
    [gas_schedule |-> present, loaded_from |-> cache]

\* The steps of a list up to and including the first that failed.
StepsUntilFailure(all) ==
    LET failed == { i \in 1..Len(all) : all[i].res # "ok" }
    IN IF failed = {} THEN all
       ELSE SubSeq(all, 1, CHOOSE i \in failed : \A j \in failed : i <= j)

\* History of process_writeset_transaction: the steps it went through
\* before returning the output out.
writeset_steps(cache, errs, t, pro, out) ==
    StepsUntilFailure(<<
        Step("signature", IF t.sig_ok THEN "ok" ELSE "INVALID_SIGNATURE", NoCost),
        Step("payload", IF t.payload = "WriteSet" THEN "ok" ELSE "UNREACHABLE", NoCost),
        Step("writeset_prologue", pro, NoCost),
        Step("bump_sequence_number", "ok", NoCost),
        Step("writeset_epilogue", "ok", NoCost),
        Step("read_writeset", read_writeset(cache, errs, t.change_set.write_set), NoCost),
        Step("finish", "ok", NoCost),
        Step("overlap", IF out.status.code = "INVALID_WRITE_SET"
                        THEN "INVALID_WRITE_SET" ELSE "ok", NoCost) >>)

\* ------------------------------------------------------- execute_block_impl
ChunkBlock ==
    /\ pc = "start"
    /\ blocks' = chunk_block_transactions(transactions)
    /\ pc' = "blocks"
    /\ UNCHANGED <<inputVars, result, batch_error, data_cache, vm, runVars, txnVars, history>>

BlockPrologue ==
    /\ pc = "blocks" /\ blocks # <<>> /\ Head(blocks).kind = "BlockPrologue"
    /\ \E exec \in {"ok"} \cup InterpreterErrors, fin \in {"ok"} \cup FinishErrors :
         LET t == Head(blocks).txns[1]
             r == process_block_prologue(data_cache, t, exec, fin)
         IN /\ (exec # "ok" => fin = "ok")
            /\ IF r.ok
               THEN /\ result' = Append(result, r.out)
                    /\ data_cache' = r.cache
                    /\ history' = Append(history,
                          HistoryEntry(t.id, <<Step("block_prologue", "ok", NoCost)>>, data_cache, r.cache))
                    /\ pc' = "blocks"
                    /\ blocks' = Tail(blocks)
                    /\ UNCHANGED batch_error
               ELSE /\ batch_error' = r.err
                    /\ pc' = "aborted"
                    /\ UNCHANGED <<result, data_cache, history, blocks>>
    /\ UNCHANGED <<inputVars, vm, runVars, txnVars>>

WaypointWriteSet ==
    /\ pc = "blocks" /\ blocks # <<>> /\ Head(blocks).kind = "WaypointWriteSet"
    /\ LET t == Head(blocks).txns[1]
             r == process_waypoint_change_set(data_cache, error_keys, t)
             out == IF r.ok THEN r.out ELSE discard_error_output(t.id, r.err)
         IN /\ result' = Append(result, out)
            /\ data_cache' = r.cache
            /\ vm' = IF r.ok THEN load_configs_impl(vm, r.cache, gas_on_chain) ELSE vm
            /\ history' = Append(history,
                   HistoryEntry(t.id, <<Step("waypoint", r.err, NoCost)>>, data_cache, r.cache))
    /\ pc' = "blocks"
    /\ blocks' = Tail(blocks)
    /\ UNCHANGED <<inputVars, batch_error, runVars, txnVars>>

WriteSetTransaction ==
    /\ pc = "blocks" /\ blocks # <<>> /\ Head(blocks).kind = "WriteSet"
    /\ \E pro \in {"ok"} \cup WritesetPrologueErrors,
          bump \in {"ok"} \cup InterpreterErrors,
          epi \in {"ok"} \cup InterpreterErrors,
          fin \in {"ok"} \cup FinishErrors :
         LET t == Head(blocks).txns[1]
             r == process_writeset_transaction(data_cache, error_keys, t, pro, bump, epi, fin)
         IN /\ Cardinality({x \in {pro, bump, epi, fin} : x # "ok"}) <= 1
            /\ IF r.ok
               THEN /\ result' = Append(result, r.out)
                    /\ history' = Append(history,
                          HistoryEntry(t.id,
                             writeset_steps(data_cache, error_keys, t, pro, r.out),
                             data_cache, data_cache))
                    /\ pc' = "blocks"
                    /\ blocks' = Tail(blocks)
                    /\ UNCHANGED batch_error
               ELSE /\ batch_error' = r.err
                    /\ pc' = "aborted"
                    /\ UNCHANGED <<result, history, blocks>>
    /\ UNCHANGED <<inputVars, data_cache, vm, runVars, txnVars>>

FinishBlock ==
    /\ pc = "blocks" /\ blocks = <<>>
    /\ pc' = "done"
    /\ UNCHANGED <<inputVars, blocks, result, batch_error, data_cache, vm, runVars, txnVars, history>>

\* -------------------------------------------------- execute_user_transactions
StartUserRun ==
    /\ pc = "blocks" /\ blocks # <<>> /\ Head(blocks).kind = "UserTransaction"
    /\ vm' = load_configs_impl(vm, data_cache, gas_on_chain)
    /\ run_txns' = Head(blocks).txns
    /\ sig_results' = [i \in 1..Len(Head(blocks).txns) |-> "pending"]
    /\ run_idx' = 1
    /\ outs' = <<>>
    /\ blocks' = Tail(blocks)
    /\ pc' = "verify"
    /\ UNCHANGED <<inputVars, result, batch_error, data_cache, txnVars, history>>

check_signature_accepts(t) == "ok"

\* txn.check_signature() mapped to INVALID_SIGNATURE on failure.
check_signature(t) == IF t.sig_ok THEN "ok" ELSE "INVALID_SIGNATURE"

collect_returns_early(res) == \E j \in 1..Len(res) : res[j] # "pending"

\* into_par_iter().map(..).collect(): returns once every element of the
\* block has its outcome, each at the position of its transaction.
collect_returns(res) == \A j \in 1..Len(res) : res[j] # "pending"

\* One verifier of the parallel map: any pending element, in any order.
CheckSignature ==
    /\ pc = "verify"
    /\ \E k \in 1..Len(run_txns) :
         LET res == [sig_results EXCEPT ![k] = check_signature(run_txns[k])] IN
         /\ sig_results[k] = "pending"
         /\ sig_results' = res
         /\ pc' = IF collect_returns(res) THEN "loop" ELSE "verify"
    /\ UNCHANGED <<inputVars, blocks, result, batch_error, data_cache, vm,
                   run_txns, run_idx, outs, txnVars, history>>

\* for transaction in signature_verified_block: the Err(e) arm.
SignatureDiscard ==
    /\ pc = "loop" /\ run_idx <= Len(run_txns) /\ sig_results[run_idx] # "ok"
    /\ txn' = run_txns[run_idx]
    /\ output' = discard_error_output(run_txns[run_idx].id, sig_results[run_idx])
    /\ steps' = <<Step("signature", sig_results[run_idx], NoCost)>>
    /\ cache_pre' = data_cache
    /\ cost_strategy' = NoCost
    /\ session' = new_session
    /\ err' = "none"
    /\ pc' = "push"
    /\ UNCHANGED <<inputVars, blocks, result, batch_error, data_cache, vm, runVars, history>>

\* execute_user_transaction up to the dispatch on the payload.
ExecuteUserTransaction ==
    /\ pc = "loop" /\ run_idx <= Len(run_txns) /\ sig_results[run_idx] = "ok"
    /\ LET t == run_txns[run_idx] IN
       /\ txn' = t
       /\ cache_pre' = data_cache
       /\ err' = "none"
       /\ \E currency_ok \in BOOLEAN :
            IF ~vm.gas_schedule
            THEN /\ currency_ok
                 /\ output' = discard_error_output(t.id, "VM_STARTUP_FAILURE")
                 /\ steps' = <<Step("start", "VM_STARTUP_FAILURE", NoCost)>>
                 /\ pc' = "push"
                 /\ cost_strategy' = NoCost
                 /\ session' = new_session
            ELSE IF ~currency_ok
            THEN /\ output' = discard_error_output(t.id, "INVALID_GAS_SPECIFIER")
                 /\ steps' = <<Step("start", "INVALID_GAS_SPECIFIER", NoCost)>>
                 /\ pc' = "push"
                 /\ cost_strategy' = user_cost_strategy(t)
                 /\ session' = new_session
            ELSE IF t.payload = "WriteSet"
            THEN /\ output' = discard_error_output(t.id, "UNREACHABLE")
                 /\ steps' = <<Step("start", "UNREACHABLE", NoCost)>>
                 /\ pc' = "push"
                 /\ cost_strategy' = user_cost_strategy(t)
                 /\ session' = new_session
            ELSE /\ cost_strategy' = user_cost_strategy(t)
                 /\ session' = new_session
                 /\ output' = NoOutput
                 /\ steps' = <<>>
                 /\ pc' = "policy"
    /\ UNCHANGED <<inputVars, blocks, result, batch_error, data_cache, vm, runVars, history>>

\* execute_script / execute_module: disable_metering, check_gas,
\* is_allowed_script / is_allowed_module.
PolicyChecks ==
    /\ pc = "policy"
    /\ \E res \in {"ok"} \cup CheckGasErrors \cup AllowedErrors(txn.payload) :
         LET cs == disable_metering(cost_strategy) IN
         /\ cost_strategy' = cs
         /\ steps' = Append(steps, Step("policy", res, cs))
         /\ err' = res
         /\ pc' = after_validation(res, "prologue")
    /\ UNCHANGED <<inputVars, blocks, result, batch_error, data_cache, vm, runVars,
                   txn, session, output, cache_pre, history>>

\* run_prologue in the transaction's session.
RunPrologue ==
    /\ pc = "prologue"
    /\ \E res \in {"ok"} \cup PrologueErrors :
         LET ch == deduct_gas(cost_strategy, 1) IN
         /\ cost_strategy' = ch.cs
         /\ session' = SessionExec(session, PrologueEffects(txn), <<>>)
         /\ steps' = Append(steps, Step("prologue", res, cost_strategy))
         /\ err' = res
         /\ pc' = after_validation(res, "intrinsic")
    /\ UNCHANGED <<inputVars, blocks, result, batch_error, data_cache, vm, runVars,
                   txn, output, cache_pre, history>>

charge_intrinsic_gas_unmetered(cs, t) ==
    deduct_gas(cs, calculate_intrinsic_gas(t.transaction_size))

\* cost_strategy.enable_metering();
\* cost_strategy.charge_intrinsic_gas(txn_data.transaction_size())
charge_intrinsic_gas(cs, t) ==
    deduct_gas(enable_metering(cs), calculate_intrinsic_gas(t.transaction_size))

\* The start of the execution logic of execute_script / execute_module.
ChargeIntrinsicGas ==
    /\ pc = "intrinsic"
    /\ LET ch == charge_intrinsic_gas(cost_strategy, txn)
           res == IF ch.ok THEN "ok" ELSE "OUT_OF_GAS"
       IN /\ cost_strategy' = ch.cs
          /\ steps' = Append(steps, Step("intrinsic", res, ch.cs))
          /\ err' = res
          /\ pc' = IF ch.ok THEN "body" ELSE "error"
    /\ UNCHANGED <<inputVars, blocks, result, batch_error, data_cache, vm, runVars,
                   txn, session, output, cache_pre, history>>

\* session.execute_script / session.publish_module under the meter.
ExecuteBody ==
    /\ pc = "body"
    /\ \E cost \in {0, MaxBodyCost}, exec \in {"ok"} \cup InterpreterErrors :
         LET ch == deduct_gas(cost_strategy, cost)
             res == IF ~ch.ok THEN "OUT_OF_GAS" ELSE exec
         IN /\ (~ch.ok => exec = "ok")
            /\ cost_strategy' = ch.cs
            /\ session' = SessionExec(session, BodyEffects(txn), BodyEvents)
            /\ steps' = Append(steps, Step("body", res, cost_strategy))
            /\ err' = res
            /\ pc' = IF res = "ok" THEN "success" ELSE "error"
    /\ UNCHANGED <<inputVars, blocks, result, batch_error, data_cache, vm, runVars,
                   txn, output, cache_pre, history>>

\* The tail of execute_script / execute_module: (script only)
\* disable_metering, then success_transaction_cleanup.
SuccessCleanup ==
    /\ pc = "success"
    /\ \E epi \in {"ok"} \cup InterpreterErrors, fin \in {"ok"} \cup FinishErrors :
         LET cs == IF txn.payload = "Script" THEN disable_metering(cost_strategy)
                   ELSE cost_strategy
             r == success_transaction_cleanup(session, cs.gas_left, txn, epi, fin)
         IN /\ (epi # "ok" => fin = "ok")
            /\ cost_strategy' = cs
            /\ steps' = Append(steps, Step("success_epilogue",
                                           IF epi # "ok" THEN epi ELSE r.err,
                                           cleanup_cost_strategy(cs.gas_left)))
            /\ IF r.ok
               THEN /\ output' = r.out /\ err' = "ok" /\ pc' = "push"
               ELSE /\ output' = NoOutput /\ err' = r.err /\ pc' = "error"
    /\ UNCHANGED <<inputVars, blocks, result, batch_error, data_cache, vm, runVars,
                   txn, session, cache_pre, history>>

\* match result { Err(err) => ... } of execute_user_transaction.
HandleError ==
    /\ pc = "error"
    /\ \E epi \in {"ok"} \cup FailureEpilogueErrors, fin \in {"ok"} \cup FinishErrors :
         /\ (epi # "ok" => fin = "ok")
         /\ (~runs_failure_epilogue(err) => epi = "ok" /\ fin = "ok")
         /\ output' = handle_error(err, cost_strategy.gas_left, txn, session, epi, fin)
         /\ steps' = IF runs_failure_epilogue(err)
                     THEN Append(steps, Step("failure_epilogue",
                                             IF epi # "ok" THEN epi ELSE fin,
                                             cleanup_cost_strategy(cost_strategy.gas_left)))
                     ELSE steps
    /\ pc' = "push"
    /\ UNCHANGED <<inputVars, blocks, result, batch_error, data_cache, vm, runVars,
                   txn, cost_strategy, session, err, cache_pre, history>>

\* The rest of the loop body: apply a kept output, push it to the result.
PushOutput ==
    /\ pc = "push"
    /\ data_cache' = apply_output(data_cache, output)
    /\ outs' = Append(outs, output)
    /\ history' = Append(history,
          HistoryEntry(output.id, steps, cache_pre, apply_output(data_cache, output)))
    /\ run_idx' = run_idx + 1
    /\ pc' = "loop"
    /\ UNCHANGED <<inputVars, blocks, result, batch_error, vm, run_txns, sig_results, txnVars>>

\* The loop is over: Ok(result), appended to the block's result.
EndUserRun ==
    /\ pc = "loop" /\ run_idx > Len(run_txns)
    /\ result' = result \o outs
    /\ outs' = <<>>
    /\ pc' = "blocks"
    /\ UNCHANGED <<inputVars, blocks, batch_error, data_cache, vm, run_txns, sig_results,
                   run_idx, txnVars, history>>

Next ==
    \/ ChunkBlock
    \/ BlockPrologue
    \/ WaypointWriteSet
    \/ WriteSetTransaction
    \/ FinishBlock
    \/ StartUserRun
    \/ CheckSignature
    \/ SignatureDiscard
    \/ ExecuteUserTransaction
    \/ PolicyChecks
    \/ RunPrologue
    \/ ChargeIntrinsicGas
    \/ ExecuteBody
    \/ SuccessCleanup
    \/ HandleError
    \/ PushOutput
    \/ EndUserRun

Spec == Init /\ [][Next]_vars

\* ------------------------------------------------------------------ claims
\* Every output produced so far, in order: the block results and the
\* outputs of the user run in progress.
AllOutputs == result \o outs

UserTxnPcs == {"policy", "prologue", "intrinsic", "body", "success", "error", "push"}

HasStep(h, name) == \E i \in 1..Len(h.steps) : h.steps[i].step = name
StepFailed(h, name) ==
    \E i \in 1..Len(h.steps) : h.steps[i].step = name /\ h.steps[i].res # "ok"
StepRes(h, name) ==
    IF HasStep(h, name)
    THEN LET i == CHOOSE j \in 1..Len(h.steps) : h.steps[j].step = name IN h.steps[i].res
    ELSE "absent"

\* C1: when execute_block returns Ok, the output vector has one element
\* per input transaction and its i-th element is the output of the i-th
\* input transaction; the empty batch gives the empty vector.
C1_OutputPerInput ==
    pc = "done" =>
        /\ Len(result) = Len(transactions)
        /\ \A i \in 1..Len(result) : result[i].id = transactions[i].id

C1_Witness ==
    /\ pc = "done"
    /\ Len(transactions) = 2
    /\ transactions[1].payload = "Script"
    /\ transactions[2].kind = "BlockMetadata"
    /\ Len(result) = 2

\* C2: every output with status Discard, whatever path produced it, has
\* an empty write set and an empty event list.
C2_DiscardIsEmpty ==
    \A o \in {AllOutputs[i] : i \in 1..Len(AllOutputs)} \cup {output} :
        o.status.kind = "Discard" => o.write_set = <<>> /\ o.events = <<>>

\* A run that discarded a transaction after its body had written to the session.
C2_Witness ==
    \E i \in 1..Len(history) :
        /\ AllOutputs[i].status.kind = "Discard"
        /\ HasStep(history[i], "body")
        /\ StepFailed(history[i], "body")

\* C3: only Keep outputs reach the cache: a transaction that ends in
\* Discard leaves the cache as it was when it started, no write of a
\* discarded transaction is in the overlay, and a user transaction in
\* progress has written nothing to the cache.
C3_OnlyKeepApplied ==
    /\ Len(history) = Len(AllOutputs)
    /\ \A i \in 1..Len(history) :
          AllOutputs[i].status.kind = "Discard" =>
              /\ history[i].post = history[i].pre
              /\ \A k \in Keys : data_cache[k].txn # AllOutputs[i].id
    /\ pc \in UserTxnPcs => data_cache = cache_pre

\* A waypoint write set discarded on a storage error, and a user
\* transaction discarded after prologue and body ran.
C3_Witness ==
    /\ pc = "done"
    /\ Len(result) = 2
    /\ transactions[1].kind = "WaypointWriteSet"
    /\ result[1].status = [kind |-> "Discard", code |-> "STORAGE_ERROR"]
    /\ result[2].status.kind = "Discard"
    /\ HasStep(history[2], "body")

RECURSIVE ComposeKeep(_, _)
ComposeKeep(cache, os) ==
    IF os = <<>> THEN cache
    ELSE ComposeKeep(IF Head(os).status.kind = "Keep"
                     THEN push_write_set(cache, Head(os).write_set) ELSE cache,
                     Tail(os))

\* C4: between transactions the cache is the in-order composition of the
\* write sets of the Keep outputs so far, and every transaction starts on
\* the composition of the Keep outputs before it, whatever the block kind.
C4_KeepComposition ==
    /\ pc \in {"blocks", "loop", "done"} =>
          data_cache = ComposeKeep(EmptyCache, AllOutputs)
    /\ \A i \in 1..Len(history) :
          history[i].pre = ComposeKeep(EmptyCache, SubSeq(AllOutputs, 1, i - 1))

MaxGasOf(id) ==
    IF transactions[id].kind = "BlockMetadata" THEN MaxGasCarrier
    ELSE transactions[id].max_gas_amount

\* C5: a Keep output never charges more than the transaction's
\* max_gas_amount; the meter of a user transaction starts at its own
\* max_gas_amount and stays between 0 and it.
C5_GasBounded ==
    /\ \A i \in 1..Len(AllOutputs) :
          AllOutputs[i].status.kind = "Keep" =>
              AllOutputs[i].gas_used <= MaxGasOf(AllOutputs[i].id)
    /\ (pc = "push" /\ output.status.kind = "Keep") =>
          output.gas_used <= txn.max_gas_amount
    /\ pc = "policy" => cost_strategy.gas_left = txn.max_gas_amount
    /\ pc \in UserTxnPcs =>
          cost_strategy.gas_left >= 0 /\ cost_strategy.gas_left <= txn.max_gas_amount

\* Two kept user transactions in a row, the first having used gas, the
\* second charged nothing more than its own.
C5_Witness ==
    /\ pc = "done"
    /\ Len(result) = 2
    /\ result[1].status.kind = "Keep" /\ result[1].gas_used = 2
    /\ transactions[2].payload = "Script"
    /\ result[2].status.kind = "Keep" /\ result[2].gas_used = transactions[2].max_gas_amount

\* C6: execute_block returns a batch-level VMStatus only for a failure of
\* the block prologue; no failure of a script, module or write-set
\* transaction or of a waypoint write set aborts the batch.
C6_OnlyBlockPrologueAborts ==
    pc = "aborted" => Head(blocks).kind = "BlockPrologue"

ValidationFailed(h) == StepFailed(h, "policy") \/ StepFailed(h, "prologue")

Current == HistoryEntry(txn.id, steps, cache_pre, data_cache)

\* C7: a script or module transaction whose policy check or prologue
\* fails is discarded: no intrinsic gas is charged, the body and the
\* epilogues are not run, and the cache is unchanged.
C7_ValidationFailureDiscards ==
    /\ \A i \in 1..Len(history) :
          ValidationFailed(history[i]) =>
              /\ AllOutputs[i].status.kind = "Discard"
              /\ AllOutputs[i].gas_used = 0
              /\ ~HasStep(history[i], "intrinsic")
              /\ ~HasStep(history[i], "body")
              /\ ~HasStep(history[i], "success_epilogue")
              /\ ~HasStep(history[i], "failure_epilogue")
              /\ history[i].post = history[i].pre
    /\ (pc \in UserTxnPcs /\ ValidationFailed(Current)) =>
          /\ pc \in {"error", "push"}
          /\ cost_strategy.gas_left = txn.max_gas_amount
          /\ data_cache = cache_pre

\* A module transaction discarded by a policy check and a script
\* transaction discarded by its prologue.
C7_Witness ==
    /\ pc = "done"
    /\ Len(history) = 2
    /\ transactions[1].payload = "Module"
    /\ StepFailed(history[1], "policy")
    /\ transactions[2].payload = "Script"
    /\ StepFailed(history[2], "prologue")
    /\ result[2].status = [kind |-> "Discard", code |-> "SEQUENCE_NUMBER_TOO_OLD"]

\* The status the metered body (intrinsic charge or interpreter call) failed with.
BodyFailure(h) ==
    IF StepFailed(h, "intrinsic") THEN StepRes(h, "intrinsic")
    ELSE IF StepFailed(h, "body") THEN StepRes(h, "body")
    ELSE "none"

FailureCleanupWriteSet(id) == << WOp("acct", id, "failure_epilogue") >>

C9_EpilogueFailureDiscards ==
    \A i \in 1..Len(history) :
        /\ StepFailed(history[i], "success_epilogue") =>
              /\ AllOutputs[i].status.kind = "Discard"
              /\ ~HasStep(history[i], "failure_epilogue")
        /\ StepFailed(history[i], "failure_epilogue") =>
              AllOutputs[i].status.kind = "Discard"

\* C10: a transaction that runs out of gas in the body (also when its
\* max_gas_amount is exactly the intrinsic cost) is kept, once the failure
\* epilogue completes, with status OUT_OF_GAS, gas_used = max_gas_amount
\* and the failure epilogue's cleanup as its write set.
C10_OutOfGasKept ==
    \A i \in 1..Len(history) :
        BodyFailure(history[i]) = "OUT_OF_GAS" =>
            /\ HasStep(history[i], "failure_epilogue")
            /\ AllOutputs[i].status.kind = "Keep" <=> StepRes(history[i], "failure_epilogue") = "ok"
            /\ AllOutputs[i].status.kind = "Keep" =>
                  /\ AllOutputs[i].status.code = "OUT_OF_GAS"
                  /\ AllOutputs[i].gas_used = transactions[AllOutputs[i].id].max_gas_amount
                  /\ AllOutputs[i].write_set = FailureCleanupWriteSet(AllOutputs[i].id)

\* The boundary case: max_gas_amount equal to the intrinsic cost, the
\* intrinsic charge passes and the body runs out of gas.
C10_Witness ==
    \E i \in 1..Len(history) :
        LET t == transactions[AllOutputs[i].id] IN
        /\ t.max_gas_amount = calculate_intrinsic_gas(t.transaction_size)
        /\ StepRes(history[i], "intrinsic") = "ok"
        /\ HasStep(history[i], "body")
        /\ StepRes(history[i], "body") = "OUT_OF_GAS"
        /\ AllOutputs[i].status = [kind |-> "Keep", code |-> "OUT_OF_GAS"]
        /\ AllOutputs[i].gas_used = t.max_gas_amount

IsSignedTxn(t) == t.kind = "UserTransaction"

\* C11: a user transaction whose signature is invalid, in a user run or
\* on the write-set path, gets Discard(INVALID_SIGNATURE) with empty write
\* set and events; nothing of it is executed, the cache is as it was
\* before it, it never aborts the batch and the transactions after it
\* still get their outputs.
C11_InvalidSignatureDiscarded ==
    /\ \A i \in 1..Len(history) :
          LET t == transactions[AllOutputs[i].id] IN
          (IsSignedTxn(t) /\ ~t.sig_ok) =>
              /\ AllOutputs[i] = discard_error_output(t.id, "INVALID_SIGNATURE")
              /\ history[i].steps = << Step("signature", "INVALID_SIGNATURE", NoCost) >>
              /\ history[i].post = history[i].pre
    /\ (pc \in UserTxnPcs /\ ~txn.sig_ok) =>
          /\ pc = "push"
          /\ output = discard_error_output(txn.id, "INVALID_SIGNATURE")
          /\ data_cache = cache_pre
    /\ pc = "aborted" => Head(blocks).txns[1].sig_ok
    /\ pc = "done" => Len(result) = Len(transactions)

\* An invalid signature on the write-set path, then one in a user run.
C11_Witness ==
    /\ pc = "done"
    /\ Len(result) = 2
    /\ transactions[1].payload = "WriteSet" /\ ~transactions[1].sig_ok
    /\ transactions[2].payload = "Script" /\ ~transactions[2].sig_ok
    /\ result[1].status = [kind |-> "Discard", code |-> "INVALID_SIGNATURE"]
    /\ result[2].status = [kind |-> "Discard", code |-> "INVALID_SIGNATURE"]
    /\ data_cache = EmptyCache

RECURSIVE Flatten(_)
Flatten(blks) == IF blks = <<>> THEN <<>> ELSE Head(blks).txns \o Flatten(Tail(blks))

\* The transactions of the user run in progress that have no output yet.
PendingOfRun ==
    IF pc \in {"verify", "loop"} \cup UserTxnPcs
    THEN SubSeq(run_txns, Len(outs) + 1, Len(run_txns)) ELSE <<>>

\* C12: chunk_block_transactions loses, duplicates and reorders nothing:
\* the transactions of its blocks, concatenated in block order, are the
\* input sequence; and so, at every later point, the transactions that
\* have an output, those pending in the current run and those of the
\* blocks still to run make up the input sequence in order.
C12_ChunkingLossless ==
    /\ pc = "start" => Flatten(chunk_block_transactions(transactions)) = transactions
    /\ (pc = "blocks" /\ AllOutputs = <<>>) => Flatten(blocks) = transactions
    /\ pc # "start" =>
          SubSeq(transactions, 1, Len(AllOutputs)) \o PendingOfRun \o Flatten(blocks)
              = transactions

\* A user run followed by a block prologue, just chunked.
C12_Witness ==
    /\ pc = "blocks"
    /\ AllOutputs = <<>>
    /\ Len(blocks) = 2
    /\ blocks[1].kind = "UserTransaction"
    /\ blocks[2].kind = "BlockPrologue"
    /\ Flatten(blocks) = transactions

\* The block kind chunk_block_transactions is to give a transaction.
FlowOf(t) ==
    IF t.kind = "BlockMetadata" THEN "BlockPrologue"
    ELSE IF t.kind = "WaypointWriteSet" THEN "WaypointWriteSet"
    ELSE IF t.payload = "WriteSet" THEN "WriteSet"
    ELSE "UserTransaction"

SingletonKinds == {"BlockPrologue", "WaypointWriteSet", "WriteSet"}

WellChunked(txns, blks) ==
    /\ \A i \in 1..Len(blks) :
          /\ blks[i].txns # <<>>
          /\ \A j \in 1..Len(blks[i].txns) : FlowOf(blks[i].txns[j]) = blks[i].kind
          /\ blks[i].kind \in SingletonKinds => Len(blks[i].txns) = 1
    /\ \A i \in 1..(Len(blks) - 1) :
          ~(blks[i].kind = "UserTransaction" /\ blks[i + 1].kind = "UserTransaction")
    /\ \A k \in SingletonKinds :
          Cardinality({ i \in 1..Len(blks) : blks[i].kind = k })
              = Cardinality({ i \in 1..Len(txns) : FlowOf(txns[i]) = k })

\* The batch [U1, U2, BlockMetadata, U3, WaypointWriteSet, U4].
MixedBatch ==
    LET U == Shape("UserTransaction", "Script", TRUE, <<1, 1>>, NoCS, FALSE)
        B == Shape("BlockMetadata", "None", TRUE, NoGas, NoCS, FALSE)
        W == Shape("WaypointWriteSet", "None", TRUE, NoGas, <<"acct", "user">>, FALSE)
        f == << U, U, B, U, W, U >>
    IN [i \in 1..6 |-> MkTxn(i, f[i])]

BlockKinds(blks) == [i \in 1..Len(blks) |-> blks[i].kind]

\* C13: chunk_block_transactions gives one singleton block to each
\* BlockMetadata, each WaypointWriteSet and each user transaction with a
\* WriteSet payload, and one user run to each maximal contiguous run of
\* the other user transactions: a user run holds no write-set
\* transaction, is never empty, and no two user runs are adjacent.
C13_ChunkingShape ==
    /\ pc = "start" =>
          /\ WellChunked(transactions, chunk_block_transactions(transactions))
          /\ BlockKinds(chunk_block_transactions(MixedBatch))
                = << "UserTransaction", "BlockPrologue", "UserTransaction",
                     "WaypointWriteSet", "UserTransaction" >>
    /\ (pc = "blocks" /\ AllOutputs = <<>>) => WellChunked(transactions, blocks)

\* Two consecutive BlockMetadata, chunked into two singleton blocks.
C13_Witness ==
    /\ pc = "blocks"
    /\ AllOutputs = <<>>
    /\ Len(transactions) = 2
    /\ transactions[1].kind = "BlockMetadata" /\ transactions[2].kind = "BlockMetadata"
    /\ BlockKinds(blocks) = << "BlockPrologue", "BlockPrologue" >>

\* The effects bundle the finished session of write-set transaction t gives.
EpilogueWriteSet(t) == txn_effects_to_writeset(writeset_session(t))
EpilogueEvents(t) == writeset_session(t).events

Overlaps(t) ==
    \/ ApSet(EpilogueWriteSet(t)) \cap ApSet(t.change_set.write_set) # {}
    \/ EvSet(EpilogueEvents(t)) \cap EvSet(t.change_set.events) # {}

\* C14: a write-set transaction with a Keep output has an epilogue write
\* set whose access paths are disjoint from the embedded write set's and
\* epilogue events whose keys are disjoint from the embedded events'; when
\* the flow gets to the overlap check and either pair overlaps, the output
\* is Discard(INVALID_WRITE_SET).
C14_OverlapCheck ==
    \A i \in 1..Len(history) :
        LET t == transactions[AllOutputs[i].id] IN
        FlowOf(t) = "WriteSet" =>
            /\ AllOutputs[i].status.kind = "Keep" =>
                  /\ HasStep(history[i], "overlap")
                  /\ ApSet(EpilogueWriteSet(t)) \cap ApSet(t.change_set.write_set) = {}
                  /\ EvSet(EpilogueEvents(t)) \cap EvSet(t.change_set.events) = {}
            /\ (HasStep(history[i], "overlap") /\ Overlaps(t)) =>
                  AllOutputs[i] = discard_error_output(t.id, "INVALID_WRITE_SET")

\* An embedded write set that writes the key the epilogue also writes.
C14_Witness ==
    /\ Len(history) >= 1
    /\ FlowOf(transactions[1]) = "WriteSet"
    /\ HasStep(history[1], "overlap")
    /\ ApSet(EpilogueWriteSet(transactions[1])) \cap ApSet(transactions[1].change_set.write_set) # {}
    /\ AllOutputs[1].status = [kind |-> "Discard", code |-> "INVALID_WRITE_SET"]

\* C15: a write-set transaction that succeeds has as write set the
\* epilogue write set followed by the embedded write set, as events the
\* embedded events followed by the epilogue events, gas_used 0 and status
\* Keep(EXECUTED).
C15_WriteSetOutput ==
    \A i \in 1..Len(history) :
        LET t == transactions[AllOutputs[i].id] IN
        (FlowOf(t) = "WriteSet" /\ StepRes(history[i], "overlap") = "ok") =>
            /\ AllOutputs[i].write_set = EpilogueWriteSet(t) \o t.change_set.write_set
            /\ AllOutputs[i].events = t.change_set.events \o EpilogueEvents(t)
            /\ AllOutputs[i].gas_used = 0
            /\ AllOutputs[i].status = [kind |-> "Keep", code |-> "EXECUTED"]

\* A write-set transaction kept with both parts non-empty.
C15_Witness ==
    \E i \in 1..Len(history) :
        LET t == transactions[AllOutputs[i].id] IN
        /\ FlowOf(t) = "WriteSet"
        /\ AllOutputs[i].status = [kind |-> "Keep", code |-> "EXECUTED"]
        /\ Len(AllOutputs[i].write_set) = 2
        /\ AllOutputs[i].write_set[1].val.by = "bump_sequence_number"
        /\ AllOutputs[i].write_set[2].val.by = "change_set"
        /\ AllOutputs[i].events = << "user", "reconfig" >>

\* The output and the cache the claim gives a waypoint write set.
WaypointApplied(i) ==
    LET t == transactions[AllOutputs[i].id] IN
    /\ AllOutputs[i].status = [kind |-> "Keep", code |-> "EXECUTED"]
    /\ AllOutputs[i].write_set = t.change_set.write_set
    /\ AllOutputs[i].events = t.change_set.events
    /\ \A j \in 1..Len(t.change_set.write_set) :
          history[i].post[t.change_set.write_set[j].ap] = t.change_set.write_set[j].val

\* C16 as stated: every waypoint write set is applied, whatever happens:
\* the output is Keep(EXECUTED) with the change set's write set and
\* events, and the cache then reads the values it wrote.
C16_WaypointAlwaysApplied ==
    \A i \in 1..Len(history) :
        transactions[AllOutputs[i].id].kind = "WaypointWriteSet" => WaypointApplied(i)

\* C16 amended: a waypoint write set whose access paths can all be read
\* through the cache is applied: Keep(EXECUTED), the change set's write set
\* and events, and the cache then reads the values it wrote; when a read
\* fails the output is Discard(STORAGE_ERROR) and the cache is unchanged.
C16_WaypointAppliedWhenReadable ==
    \A i \in 1..Len(history) :
        LET t == transactions[AllOutputs[i].id] IN
        t.kind = "WaypointWriteSet" =>
            IF read_writeset(history[i].pre, error_keys, t.change_set.write_set) = "ok"
            THEN WaypointApplied(i)
            ELSE /\ AllOutputs[i] = discard_error_output(t.id, "STORAGE_ERROR")
                 /\ history[i].post = history[i].pre

\* A waypoint write set applied over a key an earlier transaction wrote.
C16_Witness ==
    /\ Len(history) = 2
    /\ transactions[2].kind = "WaypointWriteSet"
    /\ history[2].pre # EmptyCache
    /\ WaypointApplied(2)
    /\ \E k \in Keys : data_cache[k] = [txn |-> 2, by |-> "change_set"]

MalformedInputErrors == {"MALFORMED", "UNREACHABLE", "INVALID_WRITE_SET"}

\* C17: a failure of kind MALFORMED, UNREACHABLE or INVALID_WRITE_SET is
\* never the batch-level error: the offending transaction gets a Discard
\* output with that status and the batch goes on; in particular a
\* BlockMetadata whose contents cannot be unpacked is discarded.
C17_MalformedDiscards ==
    /\ batch_error \notin MalformedInputErrors
    /\ pc = "done" =>
          \A i \in 1..Len(transactions) :
              transactions[i].malformed =>
                  result[i] = discard_error_output(i, "MALFORMED")

\* The transaction of the last output produced.
LastTxn == transactions[AllOutputs[Len(AllOutputs)].id]

\* C18: the on-chain configuration is re-read from the cache at the start
\* of every user run, before any of its transactions executes, and after
\* every waypoint write set and every write-set transaction that was
\* applied: at those points the configuration in force is the one the
\* cache holds.
C18_ConfigReloaded ==
    /\ pc = "verify" => vm.loaded_from = data_cache
    /\ (/\ pc \in {"blocks", "done"}
        /\ AllOutputs # <<>>
        /\ FlowOf(LastTxn) \in {"WaypointWriteSet", "WriteSet"}
        /\ AllOutputs[Len(AllOutputs)].status.kind = "Keep")
          => vm.loaded_from = data_cache

\* What a verifier in flight may change: the outcome of one pending
\* position, and nothing that another verifier or the serial loop owns.
VerifierStep ==
    pc = "verify" =>
        /\ data_cache' = data_cache
        /\ outs' = outs /\ result' = result /\ run_txns' = run_txns
        /\ txn' = txn /\ output' = output
        /\ \A j \in 1..Len(sig_results) :
              sig_results[j] # "pending" => sig_results'[j] = sig_results[j]
        /\ Cardinality({ j \in 1..Len(sig_results) : sig_results'[j] # sig_results[j] }) <= 1

\* C19: in a user run the signature checks all complete before the first
\* transaction executes, whatever the order the verifiers finish in: while
\* a check is pending nothing of the run has executed and the cache is as
\* the run found it; the serial loop runs only with every outcome present;
\* the outcome at position k is that of the k-th transaction of the run
\* and is the one the loop consumes for it; a verifier changes only its
\* own position.
C19_VerifyBeforeExecute ==
    /\ [](/\ (\E k \in 1..Len(sig_results) : sig_results[k] = "pending") =>
                /\ pc = "verify"
                /\ outs = <<>> /\ run_idx = 1
                /\ data_cache = vm.loaded_from
          /\ pc \in {"loop"} \cup UserTxnPcs =>
                \A k \in 1..Len(sig_results) : sig_results[k] # "pending"
          /\ Len(sig_results) = Len(run_txns)
          /\ \A k \in 1..Len(sig_results) :
                sig_results[k] # "pending" => sig_results[k] = check_signature(run_txns[k])
          /\ pc \in UserTxnPcs =>
                /\ txn = run_txns[run_idx]
                /\ pc # "push" => sig_results[run_idx] = "ok" /\ txn.sig_ok
                /\ sig_results[run_idx] # "ok" =>
                      output = discard_error_output(txn.id, "INVALID_SIGNATURE"))
    /\ [][VerifierStep]_vars

\* The second verifier of a run has finished before the first.
C19_Witness ==
    /\ pc = "verify"
    /\ Len(run_txns) = 2
    /\ sig_results[1] = "pending"
    /\ sig_results[2] = "INVALID_SIGNATURE"

StepIndexes(h, name) == { i \in 1..Len(h.steps) : h.steps[i].step = name }

\* The intrinsic charge among the steps of h: at most once, right
\* after a prologue that passed with metering off, with metering on, and
\* right before the interpreter call whenever there is one.
IntrinsicChargedOnce(h) ==
    /\ Cardinality(StepIndexes(h, "intrinsic")) <= 1
    /\ \A i \in StepIndexes(h, "intrinsic") :
          /\ h.steps[i].metering
          /\ i > 1
          /\ h.steps[i - 1] = [step |-> "prologue", res |-> "ok", metering |-> FALSE]
          /\ \A j \in 1..(i - 1) : h.steps[j].res = "ok"
    /\ \A i \in StepIndexes(h, "body") :
          /\ i > 1
          /\ h.steps[i - 1] = [step |-> "intrinsic", res |-> "ok", metering |-> TRUE]
          /\ h.steps[i].metering
    /\ ValidationFailed(h) => StepIndexes(h, "intrinsic") = {}

\* C20: a script or module transaction that reaches the body is charged
\* intrinsic gas exactly once, right after enable_metering and before the
\* interpreter call; a transaction that fails a policy check or the
\* prologue is not charged; a failed intrinsic charge is handled as a body
\* failure: the body is not run and the failure epilogue is.
C20_IntrinsicGasOnce ==
    /\ \A i \in 1..Len(history) :
          StepFailed(history[i], "intrinsic") =>
              /\ ~HasStep(history[i], "body")
              /\ ~HasStep(history[i], "success_epilogue")
              /\ HasStep(history[i], "failure_epilogue")
              /\ AllOutputs[i].status.kind = "Keep" =>
                    AllOutputs[i].status.code = "OUT_OF_GAS"
    /\ (pc = "loop" /\ history # <<>>) => IntrinsicChargedOnce(history[Len(history)])
    /\ pc \in UserTxnPcs =>
          /\ IntrinsicChargedOnce(Current)
          /\ pc \in {"policy", "prologue", "intrinsic"} =>
                cost_strategy.gas_left = txn.max_gas_amount
          /\ pc = "body" =>
                /\ cost_strategy.charge
                /\ cost_strategy.gas_left =
                      txn.max_gas_amount - calculate_intrinsic_gas(txn.transaction_size)
          /\ (pc = "error" /\ StepFailed(Current, "intrinsic")) =>
                /\ err = "OUT_OF_GAS"
                /\ runs_failure_epilogue(err)

\* A module that was charged and reached the body, then a script whose
\* intrinsic charge failed and that the failure epilogue kept.
C20_Witness ==
    /\ Len(history) = 2
    /\ transactions[1].payload = "Module"
    /\ StepRes(history[1], "intrinsic") = "ok" /\ HasStep(history[1], "body")
    /\ transactions[2].payload = "Script"
    /\ StepRes(history[2], "intrinsic") = "OUT_OF_GAS"
    /\ AllOutputs[2].status = [kind |-> "Keep", code |-> "OUT_OF_GAS"]

UnmeteredSteps == {"policy", "prologue", "success_epilogue", "failure_epilogue"}

\* Every step of h ran under the metering its kind is to have.
MeteringWindows(h) ==
    \A i \in 1..Len(h.steps) :
        /\ h.steps[i].step \in UnmeteredSteps => ~h.steps[i].metering
        /\ h.steps[i].step \in {"intrinsic", "body"} => h.steps[i].metering

\* C21: for every script and module transaction the policy checks, the
\* prologue, the success epilogue and the failure epilogue run with
\* metering disabled and the body with metering enabled; prologue and
\* epilogue take nothing from the budget: the gas is untouched up to the
\* intrinsic charge, and a kept output charges what was left when the
\* body ended.
C21_MeteringWindows ==
    /\ pc \in UserTxnPcs => MeteringWindows(Current)
    /\ (pc = "loop" /\ history # <<>>) => MeteringWindows(history[Len(history)])
    /\ pc \in {"policy", "prologue", "intrinsic"} =>
          cost_strategy.gas_left = txn.max_gas_amount
    /\ pc \in {"prologue", "intrinsic"} => ~cost_strategy.charge
    /\ pc = "body" => cost_strategy.charge
    /\ (pc = "push" /\ output.status.kind = "Keep") =>
          output.gas_used = txn.max_gas_amount - cost_strategy.gas_left

\* A module kept after its success epilogue and a script kept after its
\* failure epilogue, each charged for the body alone.
C21_Witness ==
    /\ pc = "done"
    /\ Len(history) = 2
    /\ transactions[1].payload = "Module"
    /\ StepRes(history[1], "success_epilogue") = "ok"
    /\ result[1].status.kind = "Keep" /\ result[1].gas_used = 2
    /\ transactions[2].payload = "Script"
    /\ StepRes(history[2], "body") = "ABORTED"
    /\ StepRes(history[2], "failure_epilogue") = "ok"
    /\ result[2].status.kind = "Keep" /\ result[2].gas_used = 1

TerminalKinds == {"Keep", "Discard"}

\* C22: every transaction ends in Keep or Discard, or the batch ends in a
\* batch-level error: no output has status Retry or any other status, the
\* status an error is turned into is never Retry, so the unreachable
\* branch of failed_transaction_cleanup is never taken, and a batch that
\* returns Ok has one such output per transaction.
C22_KeepOrDiscard ==
    /\ \A i \in 1..Len(AllOutputs) : AllOutputs[i].status.kind \in TerminalKinds
    /\ pc = "push" => output.status.kind \in TerminalKinds
    /\ pc = "error" => TransactionStatusFrom(err).kind \in TerminalKinds
    /\ pc = "done" => Len(result) = Len(transactions) /\ batch_error = "none"
    /\ pc = "aborted" => batch_error # "none"

\* One error that failed_transaction_cleanup kept and one that the match
\* of execute_user_transaction discarded.
C22_Witness ==
    /\ pc = "done"
    /\ Len(history) = 2
    /\ StepRes(history[1], "body") = "ABORTED"
    /\ HasStep(history[1], "failure_epilogue")
    /\ result[1].status = [kind |-> "Keep", code |-> "ABORTED"]
    /\ StepRes(history[2], "body") = "UNKNOWN_INVARIANT_VIOLATION_ERROR"
    /\ ~HasStep(history[2], "failure_epilogue")
    /\ result[2].status = [kind |-> "Discard", code |-> "UNKNOWN_INVARIANT_VIOLATION_ERROR"]

StepsOf(h) == { h.steps[i] : i \in 1..Len(h.steps) }

\* C23: chunk_block_transactions never sends a write-set transaction
\* through the user-transaction flow nor another transaction through the
\* write-set flow, so neither UNREACHABLE branch is taken: a user run
\* holds no WriteSet payload, a WriteSet block holds a signed transaction
\* with a WriteSet payload, and no step and no output has the status
\* UNREACHABLE.
C23_UnreachableNotTaken ==
    /\ pc \in {"verify", "loop"} \cup UserTxnPcs =>
          \A k \in 1..Len(run_txns) :
              IsSignedTxn(run_txns[k]) /\ run_txns[k].payload # "WriteSet"
    /\ \A b \in 1..Len(blocks) :
          blocks[b].kind = "WriteSet" =>
              IsSignedTxn(blocks[b].txns[1]) /\ blocks[b].txns[1].payload = "WriteSet"
    /\ \A i \in 1..Len(AllOutputs) : AllOutputs[i].status.code # "UNREACHABLE"
    /\ pc = "push" => output.status.code # "UNREACHABLE"
    /\ (pc = "loop" \/ pc = "blocks") /\ history # <<>> =>
          \A st \in StepsOf(history[Len(history)]) : st.res # "UNREACHABLE"

\* A script that went past the payload dispatch of the user flow and a
\* write-set transaction that went past the payload test of its flow.
C23_Witness ==
    /\ pc = "done"
    /\ Len(history) = 2
    /\ transactions[1].payload = "Script"
    /\ HasStep(history[1], "policy")
    /\ transactions[2].payload = "WriteSet"
    /\ StepRes(history[2], "payload") = "ok"
    /\ HasStep(history[2], "writeset_prologue")

====
